---- MODULE Spec2Model ----
(***************************************************************************)
(* A model of the Target product-page spider                               *)
(* (target_scraper/spiders/target_spider.py, target_scraper/items.py).     *)
(*                                                                         *)
(* Python values are tagged records [t, v]: None, str (a sequence of       *)
(* one-character strings), num (its decimal digits), list (a sequence of   *)
(* values) and obj (a function from key to value, a JSON object / dict).   *)
(* A TargetItem is a function from the names of the fields assigned so far *)
(* to their values.                                                        *)
(***************************************************************************)
EXTENDS Integers, Sequences, FiniteSets, TLC

VARIABLES
    phase,        \* "new", "failed", "ready", "crawling", "done"
    ctor_url,     \* the url argument __init__ was called with
    start_urls,   \* self.start_urls
    use_splash,   \* self.use_splash
    ctor_error,   \* the exception __init__ raised, or "none"
    requests,     \* the requests start_requests yielded
    response,     \* the response handed to parse
    emitted,      \* the items parse yielded
    raised,       \* the exception that escaped parse, or "none"
    calls         \* the calls and selector evaluations parse made, in order

vars == <<phase, ctor_url, start_urls, use_splash, ctor_error, requests,
          response, emitted, raised, calls>>

----------------------------------------------------------------------------
(* Python values *)

NoneV == [t |-> "None", v |-> <<>>]
Str(s) == [t |-> "str", v |-> s]
Num(d) == [t |-> "num", v |-> d]
Lst(l) == [t |-> "list", v |-> l]
Obj(f) == [t |-> "obj", v |-> f]

EmptyStr == Str(<<>>)
EmptyList == Lst(<<>>)
EmptyObj == Obj(<<>>)

\* bool(x)
Truthy(x) ==
    CASE x.t = "None" -> FALSE
      [] x.t = "str"  -> x.v # <<>>
      [] x.t = "num"  -> x.v # <<"0">>
      [] x.t = "list" -> x.v # <<>>
      [] x.t = "obj"  -> DOMAIN x.v # {}

\* a == b
PyEq(a, b) == a.t = b.t /\ a.v = b.v

\* a or b
PyOr(a, b) == IF Truthy(a) THEN a ELSE b

\* d.get(key, default) on a dict
Get(d, key, default) == IF key \in DOMAIN d.v THEN d.v[key] ELSE default

\* item[key] = value
SetItem(item, key, value) ==
    [f \in DOMAIN item \cup {key} |-> IF f = key THEN value ELSE item[f]]

----------------------------------------------------------------------------
(* str methods, on sequences of characters *)

IsPrefixAt(s, i, sep) ==
    /\ i + Len(sep) - 1 <= Len(s)
    /\ \A k \in 1..Len(sep) : s[i + k - 1] = sep[k]

RECURSIVE SplitFrom(_, _, _, _)
\* the parts of s from position i on, cur being the part under construction
SplitFrom(s, sep, i, cur) ==
    IF i > Len(s) THEN <<cur>>
    ELSE IF IsPrefixAt(s, i, sep)
         THEN <<cur>> \o SplitFrom(s, sep, i + Len(sep), <<>>)
         ELSE SplitFrom(s, sep, i + 1, Append(cur, s[i]))

\* s.split(sep): leftmost non-overlapping occurrences
Split(s, sep) == SplitFrom(s, sep, 1, <<>>)

RECURSIVE LStrip(_, _)
LStrip(s, chars) ==
    IF s # <<>> /\ Head(s) \in chars THEN LStrip(Tail(s), chars) ELSE s

RECURSIVE RStrip(_, _)
\* s.rstrip(chars)
RStrip(s, chars) ==
    IF s # <<>> /\ s[Len(s)] \in chars
    THEN RStrip(SubSeq(s, 1, Len(s) - 1), chars) ELSE s

Whitespace == {" "}

\* s.strip()
Strip(s) == RStrip(LStrip(s, Whitespace), Whitespace)

----------------------------------------------------------------------------
(* TargetItem: the eleven declared fields *)

Fields ==
    {"product_name", "categories", "model_no", "tcin_id", "images",
     "specifications", "description", "variant", "price", "discount_price",
     "sellers"}

\* item = TargetItem()
NewItem == <<>>

Sellers == Lst(<<Str(<<"T", "a", "r", "g", "e", "t">>)>>)

----------------------------------------------------------------------------
(* The TCIN, from the response URL *)

TcinMarker == <<"/", "-", "/", "A", "-">>

Last(seq) == seq[Len(seq)]

\* a variant that cuts at '#' before taking the text after the marker
TcinCutFirst(url) == Last(Split(Split(url, <<"#">>)[1], TcinMarker))

\* response.url.split('/-/A-')[-1].split('#')[0]
Tcin(url) == Split(Last(Split(url, TcinMarker)), <<"#">>)[1]

----------------------------------------------------------------------------
(* The embedded state script.  A script text is a sequence of lexical      *)
(* tokens: "W" is the text window.__INITIAL_STATE__ not followed by ' = ', *)
(* "M" is the marker 'window.__INITIAL_STATE__ = ' (which contains "W"),   *)
(* "J" is the text of a well-formed JSON document (response.doc is the     *)
(* value it denotes), "X" is text that is no JSON, ";" and " " are         *)
(* themselves.                                                             *)

Mentions(text) == \E i \in 1..Len(text) : text[i] \in {"W", "M"}

\* response.xpath('//script[contains(text(), "window.__INITIAL_STATE__")]/text()').get()
ScriptData(resp) ==
    LET hits == SelectSeq(resp.scripts, Mentions)
    IN  IF hits = <<>> THEN NoneV ELSE Str(hits[1])

\* script_data.split('window.__INITIAL_STATE__ = ')
ScriptParts(text) == Split(text, <<"M">>)

\* script_data.split(...)[1].strip().rstrip(';'), given the split has a [1]
JsonText(text) == RStrip(Strip(ScriptParts(text)[2]), {";"})

\* json.loads accepts a single document with whitespace around it
JsonValid(text) == Strip(text) = <<"J">>

\* the JSON path of parse raises AttributeError where .get is called on a
\* value that is no dict: data, data['product'], product['details'] (line 51)
\* and product['price'] (line 59)
JsonProduct(data) == Get(data, "product", EmptyObj)

JsonAttributeError(data) ==
    \/ data.t # "obj"
    \/ JsonProduct(data).t # "obj"
    \/ Get(JsonProduct(data), "details", EmptyObj).t # "obj"
    \/ Get(JsonProduct(data), "price", EmptyObj).t # "obj"

\* price_data.get('current_retail') or price_data.get('formatted_current_price')
\*   or price_data.get('price')
JsonPrice(price_data) ==
    PyOr(PyOr(Get(price_data, "current_retail", NoneV),
              Get(price_data, "formatted_current_price", NoneV)),
         Get(price_data, "price", NoneV))

\* price_data.get('current_retail_min')
\*   if price_data.get('current_retail_min') != price_data.get('current_retail')
\*   else None
JsonDiscount(price_data) ==
    IF ~PyEq(Get(price_data, "current_retail_min", NoneV),
             Get(price_data, "current_retail", NoneV))
    THEN Get(price_data, "current_retail_min", NoneV)
    ELSE NoneV

\* lines 49-61, given no AttributeError
JsonItem(item, data) ==
    LET product_data == Get(JsonProduct(data), "details", EmptyObj)
        price_data == Get(JsonProduct(data), "price", EmptyObj)
        i1 == SetItem(item, "product_name", Get(product_data, "title", NoneV))
        i2 == SetItem(i1, "categories", Get(product_data, "categories", EmptyList))
        i3 == SetItem(i2, "model_no", Get(product_data, "modelNumber", NoneV))
        i4 == SetItem(i3, "images", Get(product_data, "images", EmptyList))
        i5 == SetItem(i4, "specifications",
                      Get(product_data, "specifications", EmptyList))
        i6 == SetItem(i5, "description", Get(product_data, "description", EmptyStr))
        i7 == SetItem(i6, "variant", Get(product_data, "variant", EmptyStr))
        i8 == SetItem(i7, "price", JsonPrice(price_data))
        i9 == SetItem(i8, "discount_price", JsonDiscount(price_data))
    IN  SetItem(i9, "sellers", Sellers)

----------------------------------------------------------------------------
(* The page, as the selectors of _parse_fallback see it.  resp.dom holds   *)
(* the text nodes and attribute values of the elements the XPath           *)
(* expressions address, in document order:                                 *)
(*   h1     text nodes of the h1 elements whose class contains "Heading"   *)
(*   crumbs text nodes of the breadcrumb links                             *)
(*   imgs   src attributes of the zoomable images                          *)
(*   specs  text nodes of the specifications block, each [b, text]: b is   *)
(*          TRUE for the text of a <b> under a div[1], FALSE for the text  *)
(*          of the div[1] itself                                           *)
(*   desc1, desc2  text nodes of the two description containers            *)
(*   meta   content attributes of <meta name="description">                *)
(*   spans  the span elements, each [dt, cls, div, nodes]: its data-test   *)
(*          attribute, its class attribute, the class of the div around    *)
(*          it, and its text nodes [nested, text] (nested: inside a child  *)
(*          element of the span)                                           *)

RECURSIVE Flatten(_)
Flatten(seqs) == IF seqs = <<>> THEN <<>> ELSE Head(seqs) \o Flatten(Tail(seqs))

\* the values of text nodes, as Python strings
StrList(texts) == [i \in 1..Len(texts) |-> Str(texts[i])]

\* [t.strip() for t in texts]
StripAll(texts) == [i \in 1..Len(texts) |-> Strip(texts[i])]

\* the texts of a sequence of text nodes
Texts(nodes) == [i \in 1..Len(nodes) |-> nodes[i].text]

\* SelectorList.get()
XGet(texts) == IF texts = <<>> THEN NoneV ELSE Str(texts[1])

\* SelectorList.getall()
XGetAll(texts) == Lst(StrList(texts))

\* contains(hay, needle) for the attribute values of the model
ContainsSub(hay, needle) ==
    \/ hay = needle
    \/ hay = "sale-price" /\ needle = "price"
    \/ hay = "price-box" /\ needle = "price"

HasDollar(text) == \E i \in 1..Len(text) : text[i] = "$"

IsDirect(n) == ~n.nested

\* span/text()
DirectTexts(span) == Texts(SelectSeq(span.nodes, IsDirect))

\* span//text()
AllTexts(span) == Texts(span.nodes)

\* //span[...]/text() and //span[...]//text(): the text nodes of the selected
\* spans, in document order
DirectTextsOf(spans) == Flatten([i \in 1..Len(spans) |-> DirectTexts(spans[i])])
AllTextsOf(spans) == Flatten([i \in 1..Len(spans) |-> AllTexts(spans[i])])

IsProductPrice(span) == span.dt = "product-price"
IsPriceClass(span) == ContainsSub(span.cls, "sc-4d225cde-1")
InPriceDiv(span) == ContainsSub(span.div, "price")
\* contains(text(), "$") converts text() to the string of its first node
FirstTextHasDollar(span) ==
    DirectTexts(span) # <<>> /\ HasDollar(DirectTexts(span)[1])
IsSalePrice(span) == span.dt = "sale-price"
IsSaleClass(span) == ContainsSub(span.cls, "sale-price")

\* the five price selectors of lines 119-131, by number
PriceSelector(dom, k) ==
    CASE k = 1 -> XGet(DirectTextsOf(SelectSeq(dom.spans, IsProductPrice)))
      [] k = 2 -> XGet(DirectTextsOf(SelectSeq(dom.spans, IsPriceClass)))
      [] k = 3 -> XGet(AllTextsOf(SelectSeq(dom.spans, IsProductPrice)))
      [] k = 4 -> XGet(DirectTextsOf(SelectSeq(dom.spans, InPriceDiv)))
      [] k = 5 -> XGet(DirectTextsOf(SelectSeq(dom.spans, FirstTextHasDollar)))

NumPriceSelectors == 5

RECURSIVE PriceChain(_, _, _, _)
\* lines 119-132: price is the result so far, k the next selector, tried the
\* selectors evaluated so far; selector k runs only "if not price"
PriceChain(dom, price, k, tried) ==
    IF k > NumPriceSelectors THEN [price |-> price, tried |-> tried]
    ELSE IF k = 1 \/ ~Truthy(price)
         THEN PriceChain(dom, PriceSelector(dom, k), k + 1, Append(tried, k))
         ELSE PriceChain(dom, price, k + 1, tried)

\* price.strip() if price else None
StripOrNone(x) == IF Truthy(x) THEN Str(Strip(x.v)) ELSE NoneV

\* line 133
FallbackPrice(dom) == StripOrNone(PriceChain(dom, NoneV, 1, <<>>).price)

\* lines 137-139
FallbackDiscount(dom) ==
    StripOrNone(PyOr(XGet(DirectTextsOf(SelectSeq(dom.spans, IsSalePrice))),
                     XGet(DirectTextsOf(SelectSeq(dom.spans, IsSaleClass)))))

\* [cat.strip() for cat in categories if cat.strip()] if categories else []
NonBlank(text) == Strip(text) # <<>>
FallbackCategories(dom) == Lst(StrList(StripAll(SelectSeq(dom.crumbs, NonBlank))))

IsLabel(n) == n.b
IsValue(n) == ~n.b

Min(a, b) == IF a < b THEN a ELSE b

\* {spec.strip(): value.strip() for spec, value in zip(specs, specs_values)}:
\* a later pair replaces an earlier one with the same key
ZipDict(labels, values) ==
    LET n == Min(Len(labels), Len(values))
        keys == {Strip(labels[i]) : i \in 1..n}
        last(k) == CHOOSE i \in 1..n :
                      /\ Strip(labels[i]) = k
                      /\ \A j \in 1..n : Strip(labels[j]) = k => j <= i
    IN  Obj([k \in keys |-> Str(Strip(values[last(k)]))])

\* {spec.strip(): "" for spec in ...getall()}
BlankDict(texts) == Obj([k \in {Strip(texts[i]) : i \in 1..Len(texts)} |-> EmptyStr])

\* lines 91-106
FallbackSpecifications(dom) ==
    LET specs == Texts(SelectSeq(dom.specs, IsLabel))
        specs_values == Texts(SelectSeq(dom.specs, IsValue))
        specifications == ZipDict(specs, specs_values)
    IN  IF ~Truthy(specifications)
        THEN BlankDict(Texts(dom.specs))
        ELSE specifications

\* not description or not any(d.strip() for d in description)
NoDescription(texts) == texts = <<>> \/ \A i \in 1..Len(texts) : ~NonBlank(texts[i])

\* lines 110-115
FallbackDescription(dom) ==
    LET d == IF ~NoDescription(dom.desc1) THEN XGetAll(dom.desc1)
             ELSE IF ~NoDescription(dom.desc2) THEN XGetAll(dom.desc2)
             ELSE XGet(dom.meta)
    IN  IF Truthy(d) THEN d ELSE EmptyStr

\* _parse_fallback(response, item), lines 74-144
ParseFallback(resp, item) ==
    LET i1 == SetItem(item, "product_name", XGet(resp.dom.h1))
        i2 == SetItem(i1, "categories", FallbackCategories(resp.dom))
        i3 == SetItem(i2, "model_no", Str(Tcin(resp.url)))
        i4 == SetItem(i3, "images", XGetAll(resp.dom.imgs))
        i5 == SetItem(i4, "specifications", FallbackSpecifications(resp.dom))
        i6 == SetItem(i5, "description", FallbackDescription(resp.dom))
        i7 == SetItem(i6, "price", FallbackPrice(resp.dom))
        i8 == SetItem(i7, "discount_price", FallbackDiscount(resp.dom))
    IN  SetItem(i8, "sellers", Sellers)

----------------------------------------------------------------------------
(* parse *)

\* the exception the try block of lines 46-63 raises, or "none"
JsonTry(resp) ==
    LET script_data == ScriptData(resp)
    IN  IF Len(ScriptParts(script_data.v)) < 2 THEN "IndexError"
        ELSE IF ~JsonValid(JsonText(script_data.v)) THEN "JSONDecodeError"
        ELSE IF JsonAttributeError(resp.doc) THEN "AttributeError"
        ELSE "none"

\* a variant that catches json.JSONDecodeError alone
CaughtDecodeOnly(exc) == exc = "JSONDecodeError"

\* except (json.JSONDecodeError, IndexError)
Caught(exc) == exc \in {"JSONDecodeError", "IndexError"}

NoCalls == [fallback |-> 0, json |-> FALSE, tried |-> <<>>]

\* what one run of _parse_fallback adds to the record of calls
FallbackCalls(resp) ==
    [fallback |-> 1, json |-> FALSE,
     tried |-> PriceChain(resp.dom, NoneV, 1, <<>>).tried]

\* parse(response), lines 33-72: the items yielded, the exception that
\* escaped and the calls made
ParseOutcome(resp) ==
    LET item == SetItem(NewItem, "tcin_id", Str(Tcin(resp.url)))
        fallback == [emitted |-> <<ParseFallback(resp, item)>>,
                     raised |-> "none", calls |-> FallbackCalls(resp)]
    IN  IF Truthy(ScriptData(resp))
        THEN LET exc == JsonTry(resp)
             IN  IF exc = "none"
                 THEN [emitted |-> <<JsonItem(item, resp.doc)>>, raised |-> "none",
                       calls |-> [NoCalls EXCEPT !.json = TRUE]]
                 ELSE IF Caught(exc) THEN fallback
                 ELSE [emitted |-> <<>>, raised |-> exc, calls |-> NoCalls]
        ELSE fallback

----------------------------------------------------------------------------
(* The spider *)

SplashWait == 10

\* a variant that tests "url is not None"
UrlNotNone(url) == url.t # "None"

\* if url: ... else: raise ValueError
UrlGiven(url) == Truthy(url)

\* the request start_requests yields for url
MakeRequest(url, splash) ==
    IF splash
    THEN [kind |-> "SplashRequest", url |-> url, callback |-> "parse",
          endpoint |-> "render.html", wait |-> SplashWait]
    ELSE [kind |-> "Request", url |-> url, callback |-> "parse",
          endpoint |-> "", wait |-> 0]

NoResponse == [url |-> <<>>, scripts |-> <<>>, doc |-> NoneV, dom |-> <<>>]

Init ==
    /\ phase = "new"
    /\ ctor_url = NoneV
    /\ start_urls = <<>>
    /\ use_splash = FALSE
    /\ ctor_error = "none"
    /\ requests = <<>>
    /\ response = NoResponse
    /\ emitted = <<>>
    /\ raised = "none"
    /\ calls = NoCalls

\* TargetSpider.__init__(url), with scrapy_splash importable or not
Construct(url, splash) ==
    /\ phase = "new"
    /\ ctor_url' = url
    /\ IF UrlGiven(url)
       THEN /\ start_urls' = <<url>>
            /\ use_splash' = splash
            /\ ctor_error' = "none"
            /\ phase' = "ready"
       ELSE /\ ctor_error' = "ValueError"
            /\ phase' = "failed"
            /\ UNCHANGED <<start_urls, use_splash>>
    /\ UNCHANGED <<requests, response, emitted, raised, calls>>

\* TargetSpider.start_requests()
StartRequests ==
    /\ phase = "ready"
    /\ requests' = [i \in 1..Len(start_urls) |-> MakeRequest(start_urls[i], use_splash)]
    /\ phase' = "crawling"
    /\ UNCHANGED <<ctor_url, start_urls, use_splash, ctor_error, response,
                   emitted, raised, calls>>

\* the framework calls the request's callback, parse, with the response
Parse(resp) ==
    /\ response' = resp
    /\ \E out \in {ParseOutcome(resp)} :
          /\ emitted' = out.emitted
          /\ raised' = out.raised
          /\ calls' = out.calls
    /\ phase' = "done"
    /\ UNCHANGED <<ctor_url, start_urls, use_splash, ctor_error, requests>>

----------------------------------------------------------------------------
(* Inputs *)

MaxUrlSegs == 4
MaxScriptLen == 4
MaxSpans == 2
MaxSpecNodes == 3
MaxCrumbs == 2

SeqsUpTo(S, n) == UNION {[1..k -> S] : k \in 0..n}

\* texts
Blank == <<" ">>
Usd5 == <<"$", "5">>
Usd9 == <<"$", "9">>
Plain5 == <<"5">>
Padded5 == <<" ", "$", "5", " ">>
Word == <<"R", "A", "M">>
PaddedWord == <<"R", "A", "M", " ">>
Zero == <<"0">>

\* URLs: one to MaxUrlSegs pieces, among them the marker and its fragments
UrlPieces == {TcinMarker, <<"#">>, <<"1">>, <<"/", "-", "/">>, <<"A", "-">>, <<"/">>}
Urls == {Flatten(p) : p \in SeqsUpTo(UrlPieces, MaxUrlSegs) \ {<<>>}}
BaseUrl == <<"p", "/", "-", "/", "A", "-", "1", "#", "l">>

\* what -a url=... can pass to the constructor
CtorUrls == {NoneV, EmptyStr, Str(BaseUrl)}

\* script texts
ScriptTokens == {"W", "M", "J", "X", ";", " "}
ScriptTexts == SeqsUpTo(ScriptTokens, MaxScriptLen) \ {<<>>}
ShortScriptTexts == SeqsUpTo({"M", "J", "X"}, 2) \ {<<>>}
ScriptLists ==
    {<<>>} \cup {<<s>> : s \in ScriptTexts}
           \cup {<<s1, s2>> : s1 \in ShortScriptTexts, s2 \in ShortScriptTexts}

\* JSON documents
Absent == [t |-> "absent", v |-> <<>>]

\* the object with the keys of f that are not Absent
Present(f) == Obj([k \in {k \in DOMAIN f : f[k] # Absent} |-> f[k]])

PriceObjs ==
    {Present(f) : f \in
        [current_retail : {Absent, NoneV, Num(Zero), Str(Usd5), Str(Usd9)},
         formatted_current_price : {Absent, EmptyStr, Str(Usd5)},
         price : {Absent, Num(Zero), Str(Usd9)},
         current_retail_min : {Absent, Num(Zero), Str(Usd5), Str(Usd9)}]}

SpecsObj == Obj([k \in {Word} |-> Str(Plain5)])

DetailsObjs ==
    {Present(f) : f \in
        [title : {Absent, Str(Word)},
         categories : {Absent, Lst(<<Str(Word)>>)},
         modelNumber : {Absent, Str(Plain5)},
         images : {Absent, Lst(<<Str(Word)>>)},
         specifications : {Absent, SpecsObj},
         description : {Absent, Str(Word)},
         variant : {Absent, Str(Word)}]}

FullDetails ==
    Obj([title |-> Str(Word), categories |-> Lst(<<Str(Word)>>),
         modelNumber |-> Str(Plain5), images |-> Lst(<<Str(Word)>>),
         specifications |-> SpecsObj, description |-> Str(Word),
         variant |-> Str(Word)])
FullPrice == Obj([current_retail |-> Str(Usd9), current_retail_min |-> Str(Usd5)])

Doc(details, price) == Obj([product |-> Present([details |-> details, price |-> price])])
GoodDoc == Doc(FullDetails, FullPrice)

\* documents of every shape: a top level, a 'product', a 'details' or a
\* 'price' that is null or no object
NonObjects == {NoneV, EmptyList, Str(Word), Num(Zero)}
ShapeDocs ==
    NonObjects \cup {EmptyObj}
        \cup {Obj([product |-> x]) : x \in NonObjects \cup {EmptyObj}}
        \cup {Doc(d, p) : d \in NonObjects \cup {Absent, FullDetails},
                          p \in NonObjects \cup {Absent, FullPrice}}
Docs ==
    ShapeDocs \cup {Doc(d, FullPrice) : d \in DetailsObjs}
              \cup {Doc(FullDetails, p) : p \in PriceObjs}

\* pages
Node(nested, text) == [nested |-> nested, text |-> text]
SpanAttrs ==
    {[dt |-> "product-price", cls |-> "", div |-> ""],
     [dt |-> "sale-price", cls |-> "", div |-> ""],
     [dt |-> "", cls |-> "sc-4d225cde-1", div |-> ""],
     [dt |-> "", cls |-> "sale-price", div |-> ""],
     [dt |-> "", cls |-> "", div |-> "price-box"],
     [dt |-> "", cls |-> "", div |-> ""]}
SpanNodes ==
    {<<>>, <<Node(FALSE, Blank)>>, <<Node(FALSE, Usd5)>>, <<Node(FALSE, Padded5)>>,
     <<Node(FALSE, Usd9)>>, <<Node(FALSE, Plain5)>>, <<Node(TRUE, Usd5)>>,
     <<Node(FALSE, Blank), Node(TRUE, Usd5)>>}
Spans ==
    {[dt |-> a.dt, cls |-> a.cls, div |-> a.div, nodes |-> n] :
        a \in SpanAttrs, n \in SpanNodes}

SpecNodes == {[b |-> b, text |-> t] : b \in BOOLEAN, t \in {Word, PaddedWord, Blank}}

EmptyDom ==
    [h1 |-> <<>>, crumbs |-> <<>>, imgs |-> <<>>, specs |-> <<>>, desc1 |-> <<>>,
     desc2 |-> <<>>, meta |-> <<>>, spans |-> <<>>]
RichDom ==
    [h1 |-> <<Word>>, crumbs |-> <<PaddedWord, Blank>>, imgs |-> <<Word>>,
     specs |-> <<[b |-> TRUE, text |-> Word], [b |-> FALSE, text |-> Plain5]>>,
     desc1 |-> <<Word>>, desc2 |-> <<>>, meta |-> <<Word>>,
     spans |-> <<[dt |-> "product-price", cls |-> "", div |-> "",
                  nodes |-> <<Node(FALSE, Usd9)>>],
                 [dt |-> "sale-price", cls |-> "", div |-> "",
                  nodes |-> <<Node(FALSE, Usd5)>>]>>]

DescTexts == {<<>>, <<Blank>>, <<Word>>, <<Blank, Word>>}
\* an attribute, unlike a text node, can be the empty string
MetaContents == {<<>>, <<<<>>>>, <<Word>>}

PriceDoms == {[EmptyDom EXCEPT !.spans = s] : s \in SeqsUpTo(Spans, MaxSpans)}
SpecDoms == {[EmptyDom EXCEPT !.specs = s] : s \in SeqsUpTo(SpecNodes, MaxSpecNodes)}
MiscDoms ==
    {[EmptyDom EXCEPT !.h1 = h, !.crumbs = c, !.imgs = i, !.desc1 = d1,
                      !.desc2 = d2, !.meta = m] :
        h \in {<<>>, <<Word>>, <<Blank, Word>>},
        c \in SeqsUpTo({Blank, PaddedWord}, MaxCrumbs),
        i \in {<<>>, <<Word>>},
        d1 \in DescTexts, d2 \in DescTexts, m \in MetaContents}

Resp(url, scripts, doc, dom) ==
    [url |-> url, scripts |-> scripts, doc |-> doc, dom |-> dom]

JsonScript == <<<<"M", "J", ";">>>>
BadScripts == {<<>>, <<<<"W">>>>, <<<<"M", "X">>>>}

----------------------------------------------------------------------------

\* the responses parse is run on: each disjunct varies one part of the
\* response over its whole pool; parse runs once for the request outstanding
Deliver ==
    /\ phase = "crawling"
    /\ requests # <<>>
    /\ \/ \E u \in Urls, s \in {<<>>, JsonScript} :
             Parse(Resp(u, s, GoodDoc, RichDom))
       \/ \E s \in ScriptLists, d \in {GoodDoc, EmptyList} :
             Parse(Resp(BaseUrl, s, d, RichDom))
       \/ \E d \in Docs : Parse(Resp(BaseUrl, JsonScript, d, RichDom))
       \/ \E s \in BadScripts, d \in SpecDoms \cup MiscDoms :
             Parse(Resp(BaseUrl, s, GoodDoc, d))
       \/ \E d \in PriceDoms : Parse(Resp(BaseUrl, <<>>, GoodDoc, d))

Next ==
    \/ \E url \in CtorUrls, splash \in BOOLEAN : Construct(url, splash)
    \/ StartRequests
    \/ Deliver

Spec == Init /\ [][Next]_vars

----------------------------------------------------------------------------
(* Properties *)

Done == phase = "done"
Emitted == Done /\ emitted # <<>>
Rec == emitted[1]
OnJsonPath == Done /\ calls.json
OnFallbackPath == Done /\ calls.fallback = 1

\* C1: one call of parse emits exactly one record, whatever the response:
\* no exception escapes and no second record is emitted.
C1_ExactlyOneRecord == Done => (raised = "none" /\ Len(emitted) = 1)

\* the script with window.__INITIAL_STATE__ is found
ScriptFound == \E i \in 1..Len(response.scripts) : Mentions(response.scripts[i])
FoundText == response.scripts[CHOOSE i \in 1..Len(response.scripts) :
                 /\ Mentions(response.scripts[i])
                 /\ \A j \in 1..(i - 1) : ~Mentions(response.scripts[j])]
MarkerPlaces(text) == {i \in 1..Len(text) : text[i] = "M"}
SetMin(S) == CHOOSE x \in S : \A y \in S : x <= y
SetMax(S) == CHOOSE x \in S : \A y \in S : y <= x
\* the text after the first marker, up to the next marker or the end
AfterMarker(text) ==
    LET m == SetMin(MarkerPlaces(text))
        later == {i \in MarkerPlaces(text) : i > m}
    IN  SubSeq(text, m + 1, IF later = {} THEN Len(text) ELSE SetMin(later) - 1)
\* text is what the code accepts as JSON: one document with spaces around
\* it, then semicolons, then spaces
IsJsonText(text) ==
    \E i \in 1..Len(text) : \E a, b \in i..Len(text) :
        /\ a <= b
        /\ text[i] = "J"
        /\ \A j \in 1..(i - 1) : text[j] = " "
        /\ \A j \in (i + 1)..a : text[j] = " "
        /\ \A j \in (a + 1)..b : text[j] = ";"
        /\ \A j \in (b + 1)..Len(text) : text[j] = " "
Unparsable ==
    ScriptFound /\ (MarkerPlaces(FoundText) = {} \/ ~IsJsonText(AfterMarker(FoundText)))

\* the fields of a record that the HTML fallback chain produced
FromFallback(rec) ==
    /\ rec["product_name"] = XGet(response.dom.h1)
    /\ rec["categories"] = FallbackCategories(response.dom)
    /\ rec["images"] = XGetAll(response.dom.imgs)
    /\ rec["specifications"] = FallbackSpecifications(response.dom)
    /\ rec["description"] = FallbackDescription(response.dom)
    /\ rec["price"] = FallbackPrice(response.dom)
    /\ rec["discount_price"] = FallbackDiscount(response.dom)
    /\ rec["sellers"] = Sellers

\* C2: when the script is found but cannot be parsed (no marker, or no valid
\* JSON after the marker), and when the script is absent, parse raises
\* nothing, runs _parse_fallback once and emits the record of the fallback
\* chain; after a completed JSON mapping the fallback has not run.
C2_FallbackOnUnparsable ==
    Done =>
        /\ (Unparsable \/ ~ScriptFound) =>
              /\ raised = "none"
              /\ calls.fallback = 1
              /\ Len(emitted) = 1
              /\ FromFallback(Rec)
        /\ calls.json => calls.fallback = 0
        /\ (ScriptFound /\ ~Unparsable) => calls.fallback = 0

C2_Witness ==
    /\ Done /\ ScriptFound /\ MarkerPlaces(FoundText) # {}
    /\ ~IsJsonText(AfterMarker(FoundText))
    /\ calls.fallback = 1 /\ Len(emitted) = 1
    /\ Rec["price"] = Str(Usd9)

\* C3: in every emitted record, on either path, discount_price is non-null
\* only if it differs from the record's price.
C3_DiscountDiffersFromPrice ==
    Emitted => (Rec["discount_price"] # NoneV
                  => ~PyEq(Rec["discount_price"], Rec["price"]))

\* C4: every emitted record has all eleven fields assigned, whichever path
\* produced it.
C4_AllFieldsAssigned == \A i \in 1..Len(emitted) : DOMAIN emitted[i] = Fields

\* the price object of the response's document, on the JSON path
PriceData == Get(JsonProduct(response.doc), "price", EmptyObj)
HasValue(k) == k \in DOMAIN PriceData.v /\ PriceData.v[k] # NoneV

\* C5: on the JSON path price is the first of current_retail,
\* formatted_current_price and price that is present with a value (a present
\* current_retail of 0 included), and null only when none of them is.
C5_PricePriority ==
    OnJsonPath =>
        Rec["price"] =
            IF HasValue("current_retail") THEN PriceData.v["current_retail"]
            ELSE IF HasValue("formatted_current_price")
                 THEN PriceData.v["formatted_current_price"]
            ELSE IF HasValue("price") THEN PriceData.v["price"]
            ELSE NoneV

Yielded(k) == PriceSelector(response.dom, k) # NoneV

\* the price selectors are tried in order, each only if the ones before it
\* yielded nothing, and price is the stripped result of the first that yielded
PriceOrder ==
    /\ \E n \in 1..NumPriceSelectors : calls.tried = [k \in 1..n |-> k]
    /\ \A i \in 1..Len(calls.tried) : \A j \in 1..(calls.tried[i] - 1) : ~Yielded(j)
    /\ \A k \in 1..NumPriceSelectors :
          (Yielded(k) /\ \A j \in 1..(k - 1) : ~Yielded(j))
              => Rec["price"] = Str(Strip(PriceSelector(response.dom, k).v))
    /\ (\A k \in 1..NumPriceSelectors : ~Yielded(k)) => Rec["price"] = NoneV

\* C6: on the fallback path the five price selectors are tried in the fixed
\* order, selector k+1 only if selectors 1..k yielded nothing; price is the
\* stripped result of the first that yielded, null when none did, and a
\* non-null price is never the empty string.
C6_PriceSelectorChain ==
    OnFallbackPath => (PriceOrder /\ Rec["price"] # EmptyStr)

\* C9: in every emitted record specifications is a mapping from label to
\* value; on the fallback path the pairing by position has no more entries
\* than the shorter list, and only when it is empty does every text node of
\* the block become a label mapped to the empty string.
C9_SpecificationsIsMapping ==
    Emitted =>
        /\ Rec["specifications"].t = "obj"
        /\ OnFallbackPath =>
              LET labels == SelectSeq(response.dom.specs, IsLabel)
                  values == SelectSeq(response.dom.specs, IsValue)
                  spec == Rec["specifications"].v
              IN  IF labels # <<>> /\ values # <<>>
                  THEN Cardinality(DOMAIN spec) <= Min(Len(labels), Len(values))
                  ELSE /\ DOMAIN spec = {Strip(response.dom.specs[i].text) :
                                             i \in 1..Len(response.dom.specs)}
                       /\ \A k \in DOMAIN spec : spec[k] = EmptyStr

Constructed == phase \in {"ready", "crawling", "done"}
Requested == phase \in {"crawling", "done"}

\* C7: constructing the spider fails with ValueError exactly when url is None
\* or empty; otherwise start_urls is [url] and start_requests issues exactly
\* one request for that URL with parse as its callback: a Splash render.html
\* request with wait 10 when scrapy_splash is importable, a plain one if not.
C7_ConstructAndRequest ==
    /\ phase # "new" =>
          /\ ctor_error = "ValueError" <=> (ctor_url.t = "None" \/ ctor_url.v = <<>>)
          /\ phase = "failed" <=> ctor_error = "ValueError"
    /\ Constructed => start_urls = <<ctor_url>>
    /\ ~Requested => requests = <<>>
    /\ Requested =>
          /\ Len(requests) = 1
          /\ requests[1].url = ctor_url
          /\ requests[1].callback = "parse"
          /\ IF use_splash
             THEN /\ requests[1].kind = "SplashRequest"
                  /\ requests[1].endpoint = "render.html"
                  /\ requests[1].wait = 10
             ELSE requests[1].kind = "Request"

C7_Witness ==
    /\ phase = "crawling" /\ use_splash
    /\ requests = <<MakeRequest(Str(BaseUrl), TRUE)>>

\* where the marker '/-/A-' occurs in url
TcinMarkerPlaces(url) == {i \in 1..Len(url) : IsPrefixAt(url, i, TcinMarker)}
\* the text after the last occurrence of the marker, the whole url without one
AfterLastMarker(url) ==
    IF TcinMarkerPlaces(url) = {} THEN url
    ELSE SubSeq(url, SetMax(TcinMarkerPlaces(url)) + Len(TcinMarker), Len(url))
HashPlaces(text) == {i \in 1..Len(text) : text[i] = "#"}
CutAtHash(text) ==
    IF HashPlaces(text) = {} THEN text
    ELSE SubSeq(text, 1, SetMin(HashPlaces(text)) - 1)

\* C10: tcin_id is the text after the last '/-/A-' of the response URL (the
\* whole URL without one), cut at the first '#', on both paths; it contains
\* neither '#' nor '/-/A-'; on the fallback path model_no equals tcin_id.
C10_TcinFromUrl ==
    Emitted =>
        /\ Rec["tcin_id"] = Str(CutAtHash(AfterLastMarker(response.url)))
        /\ HashPlaces(Rec["tcin_id"].v) = {}
        /\ TcinMarkerPlaces(Rec["tcin_id"].v) = {}
        /\ OnFallbackPath => Rec["model_no"] = Rec["tcin_id"]

C10_Witness ==
    /\ OnFallbackPath /\ Emitted
    /\ Cardinality(TcinMarkerPlaces(response.url)) = 2
    /\ HashPlaces(response.url) # {}
    /\ SetMin(HashPlaces(response.url)) < SetMax(TcinMarkerPlaces(response.url))
    /\ Rec["tcin_id"] = Str(<<"1">>)
    /\ Rec["model_no"] = Rec["tcin_id"]

====
